---- MODULE Spec2Model ----
(***************************************************************************)
(* A model of node-batcher's createBatcher (src/src/index.ts, lines 1-224) *)
(* as a state machine.  One batcher instance is modelled together with its *)
(* environment: the callers (add, cancel, waitForAll), Node's timers, the   *)
(* microtask queue that runs promise reactions, and the caller-supplied     *)
(* onFlush handler, which settles whenever it chooses.                      *)
(***************************************************************************)
EXTENDS Integers, Sequences, FiniteSets, TLC

\* ------------------------------------------------------------------ bounds
\* the number of calls the callers make that have an effect: add, waitForAll
\* and the first cancel of an item
MaxCalls == 3

\* the configurations createBatcher is constructed with
MaxSizes == {1, 2}
MaxTimes == {1, 2}
MinTimes == {0, 2}

\* the data callers add, the values they cancel with, what a handler returns
Data == {"a"}
CancelValues == {"null", "c"}
HandlerData == {"r"}

VARIABLES
  props,           \* BatcherConfig: maxSize, maxTimeInMs, minTimeInMs
  items,           \* every _Item created by add, by creation order (id = index)
  future,          \* the promise add returned for each item
  reached,         \* history: the first settlement that reached each item
  dataArray,       \* _dataArray: the open group, as item indices
  batchTimeout,    \* the max-wait timer behind the batchTimeout handle
  batches,         \* every FlushBatch created, by creation order
  pendingFlushes,  \* the Set pendingFlushes, as indices into batches
  waits            \* the waitForAll calls made, by call order

vars == <<props, items, future, reached, dataArray, batchTimeout,
          batches, pendingFlushes, waits>>

\* ---------------------------------------------------------------- helpers
Max(a, b) == IF a >= b THEN a ELSE b

Min(a, b) == IF a <= b THEN a ELSE b

SetMax(S) == CHOOSE x \in S : \A y \in S : x >= y

Range(s) == {s[k] : k \in 1..Len(s)}

Pending == [st |-> "pending", val |-> "none"]

\* Time is kept as durations, which is all the code computes with: a timer
\* holds the time left until it may fire, and an item holds Date.now() - at,
\* the time since it was added, up to the moment flush reads it as delta_ms.
\* No configured duration exceeds Horizon, so a duration that has reached it
\* need not grow further.
Horizon == Max(SetMax(MaxTimes), SetMax(MinTimes))

NoTimer == [armed |-> FALSE, left |-> 0]

\* a slip: setTimeout(cb) without its delay
setTimeoutNoDelay(ms) == [armed |-> TRUE, left |-> 0]

\* setTimeout(cb, ms): a timer that fires no earlier than ms from now
setTimeout(ms) == [armed |-> TRUE, left |-> ms]

\* a slip at lines 189 and 212: the timer is left running
clearTimeoutKeeps(t) == t

\* clearTimeout(handle): the timer will not fire; clearing a fired or cleared
\* timer changes nothing
clearTimeout(t) == NoTimer

\* a slip: a promise whose later resolve or reject replaces its settlement
PromiseOverwrite(p, st, v) == [st |-> st, val |-> v]

\* A native promise settles once: resolve and reject on a settled promise
\* do nothing.
PromiseSettle(p, st, v) == IF p.st = "pending" THEN [st |-> st, val |-> v] ELSE p

\* --------------------------------------------------------- flush (l. 53-88)
\* a slip at line 63: the filtered items come out last first
NotCancelledReversed(its, seq) ==
  LET live == SelectSeq(seq, LAMBDA k : ~its[k].cancelled)
  IN  [k \in 1..Len(live) |-> live[Len(live) + 1 - k]]

\* a slip at line 63: the filter left out
NotFiltered(its, seq) == seq

\* line 63: dataArray.filter((i) => i.cancelled === false)
NotCancelled(its, seq) == SelectSeq(seq, LAMBDA k : ~its[k].cancelled)

\* a slip at lines 65-67: the handler is invoked with whatever the filter left
flushAlways(its, b) ==
  [b EXCEPT !.phase = "flushing", !.batch = NotCancelled(its, b.items)]

\* flush() up to its await: an empty filtered batch returns [] at once (the
\* unit's promise fulfils), otherwise onFlush is invoked with the filtered
\* batch and the unit waits for the handler.
flush(its, b) ==
  LET live == NotCancelled(its, b.items)
  IN  IF Len(live) = 0
        THEN [b EXCEPT !.phase = "settled", !.result = "ok"]
        ELSE [b EXCEPT !.phase = "flushing", !.batch = live]

\* what the handler's promise may settle with for a batch: nothing, an error,
\* or an array of {id, data} for some of the batch's ids
HandlerResults(batch) ==
  {[kind |-> k, map |-> <<>>] : k \in {"void", "error"}}
    \cup {[kind |-> "array", map |-> m] :
            m \in UNION {[S -> HandlerData] : S \in SUBSET Range(batch)}}

\* a slip at lines 72-76: the handler's error is swallowed, not passed on
FlushOutcomeSwallows(res, i) ==
  IF res.kind = "array" /\ i \in DOMAIN res.map
    THEN [st |-> "resolved", val |-> res.map[i]]
    ELSE [st |-> "resolved", val |-> "null"]

\* a slip at line 81: an id the handler left out is an error, not null
FlushOutcomeAbsentRejects(res, i) ==
  IF res.kind = "error" THEN [st |-> "rejected", val |-> "E"]
  ELSE IF res.kind = "void" THEN [st |-> "resolved", val |-> "null"]
  ELSE IF i \in DOMAIN res.map
    THEN [st |-> "resolved", val |-> res.map[i]]
    ELSE [st |-> "rejected", val |-> "missing"]

\* lines 72-85: what flush settles one item of the batch with
FlushOutcome(res, i) ==
  IF res.kind = "error" THEN [st |-> "rejected", val |-> "E"]
  ELSE IF res.kind = "array" /\ i \in DOMAIN res.map
    THEN [st |-> "resolved", val |-> res.map[i]]
    ELSE [st |-> "resolved", val |-> "null"]

\* lines 74, 81, 84: i.cancelled === false && i.resolve(..) / i.reject(e)
FlushSettles(its, b, i) == i \in Range(b.batch) /\ ~its[i].cancelled

\* ------------------------------------------------- FlushBatch (l. 96-129)
\* the constructor: with a dwell left, a timer whose expiry lets flush run;
\* without, flush runs inside the constructor
FlushBatch(its, itemsToFlush, timeToFlush, by) ==
  LET b == [items |-> itemsToFlush, phase |-> "dwell", batch |-> <<>>,
            result |-> "none", timeout |-> NoTimer, isSettled |-> FALSE,
            closedBy |-> by]
  IN  IF timeToFlush > 0
        THEN [b EXCEPT !.timeout = setTimeout(timeToFlush)]
        ELSE flush(its, b)

\* a slip at lines 125-127: the timer is cleared and the promise not resolved
settleWithoutResolve(b) ==
  IF b.isSettled THEN b
  ELSE [b EXCEPT !.isSettled = TRUE, !.timeout = [armed |-> FALSE, left |-> 0]]

\* FlushBatch.settle(): once only; clears the dwell timer and resolves the
\* dwell promise, which queues flush as its reaction
settle(b) ==
  IF b.isSettled THEN b
  ELSE [b EXCEPT !.isSettled = TRUE,
                 !.timeout = clearTimeout(@),
                 !.phase = IF @ = "dwell" THEN "ready" ELSE @]

\* --------------------------------------------- createBatcher (l. 133-224)
\* a slip at line 151: the operands of the subtraction exchanged
timeToFlushSwapped(timePending) == Max(timePending - props.minTimeInMs, 0)

\* line 151: Math.max((minTimeInMs ?? 0) - timePending, 0)
timeToFlush(timePending) == Max(props.minTimeInMs - timePending, 0)

\* a slip at line 148: the open group is handed over and not emptied
_flushKeeps(its, arr, by) ==
  IF Len(arr) = 0
    THEN [dataArray |-> arr, batches |-> batches, pendingFlushes |-> pendingFlushes]
    ELSE LET timePending == its[arr[1]].age
             flushItem == FlushBatch(its, arr, timeToFlush(timePending), by)
         IN  [dataArray |-> arr,
              batches |-> Append(batches, flushItem),
              pendingFlushes |-> pendingFlushes \cup {Len(batches) + 1}]

\* _flush(): closes the open group arr into a new registered FlushBatch
_flush(its, arr, by) ==
  IF Len(arr) = 0
    THEN [dataArray |-> arr, batches |-> batches, pendingFlushes |-> pendingFlushes]
    ELSE LET timePending == its[arr[1]].age
             flushItem == FlushBatch(its, arr, timeToFlush(timePending), by)
         IN  [dataArray |-> <<>>,
              batches |-> Append(batches, flushItem),
              pendingFlushes |-> pendingFlushes \cup {Len(batches) + 1}]

\* a slip at line 188: > for >=
sizeExceeded(len) == len > props.maxSize

\* line 188: _dataArray.length >= maxSize
sizeReached(len) == len >= props.maxSize

\* a slip at line 194: the timer armed on the second item, not the first
firstItemOffByOne(len) == len = 2

\* line 194: _dataArray.length === 1
firstItem(len) == len = 1

\* a slip at line 183: the flag is set and resolve(value) is left out
cancelWithoutResolve(i, v) ==
  IF items[i].cancelled
    THEN [items |-> items, future |-> future]
    ELSE [items |-> [items EXCEPT ![i].cancelled = TRUE], future |-> future]

\* lines 178-184: the cancel handle of item i
cancel(i, v) ==
  IF items[i].cancelled
    THEN [items |-> items, future |-> future]
    ELSE [items |-> [items EXCEPT ![i].cancelled = TRUE],
          future |-> [future EXCEPT ![i] = PromiseSettle(@, "resolved", v)]]

\* a slip at line 216: Promise.race for Promise.all
PromiseRace(tracked) ==
  IF \E u \in tracked : batches[u].phase = "done" /\ batches[u].result = "err"
    THEN "rejected"
  ELSE IF tracked = {} \/ \E u \in tracked : batches[u].phase = "done"
    THEN "resolved"
    ELSE "pending"

\* line 216: Promise.all over the promises of the tracked units.  A unit's
\* promise is settled from phase "settled" on; its own catch/finally chain
\* (lines 158-163) was attached first, so the unit has left the registry
\* when Promise.all's reaction to it runs.
PromiseAll(tracked) ==
  IF \E u \in tracked : batches[u].phase = "done" /\ batches[u].result = "err"
    THEN "rejected"
  ELSE IF \A u \in tracked : batches[u].phase = "done"
    THEN "resolved"
    ELSE "pending"

\* promise reactions queued and not yet run: timers fire only between them
MicrotaskQueued ==
  \/ \E u \in 1..Len(batches) : batches[u].phase \in {"ready", "settled"}
  \/ \E w \in 1..Len(waits) :
       waits[w].st = "pending" /\ PromiseAll(waits[w].tracked) # "pending"

\* the calls made so far that had an effect
Calls == Len(items) + Len(waits) + Len(SelectSeq(items, LAMBDA it : it.cancelled))

\* ------------------------------------------------------------------- Init
Init ==
  /\ props \in [maxSize : MaxSizes, maxTimeInMs : MaxTimes, minTimeInMs : MinTimes]
  /\ items = <<>>
  /\ future = <<>>
  /\ reached = <<>>
  /\ dataArray = <<>>
  /\ batchTimeout = NoTimer
  /\ batches = <<>>
  /\ pendingFlushes = {}
  /\ waits = <<>>

\* ---------------------------------------------------------------- actions
\* add(data), lines 174-201
Add(d) ==
  /\ Calls < MaxCalls
  /\ LET its == Append(items, [data |-> d, age |-> 0, cancelled |-> FALSE])
         arr == Append(dataArray, Len(its))
         full == sizeReached(Len(arr))
         f == IF full THEN _flush(its, arr, "size")
              ELSE [dataArray |-> arr, batches |-> batches,
                    pendingFlushes |-> pendingFlushes]
         t == IF full THEN clearTimeout(batchTimeout) ELSE batchTimeout
     IN  /\ items' = its
         /\ future' = Append(future, Pending)
         /\ reached' = Append(reached, [by |-> "none", st |-> "pending", val |-> "none"])
         /\ dataArray' = f.dataArray
         /\ batches' = f.batches
         /\ pendingFlushes' = f.pendingFlushes
         /\ batchTimeout' = IF firstItem(Len(f.dataArray))
                              THEN setTimeout(props.maxTimeInMs) ELSE t
  /\ UNCHANGED <<props, waits>>

\* a slip at lines 178-184: cancel also takes the item out of the open group
CancelRemoves(i, v) ==
  /\ i \in 1..Len(items)
  /\ items[i].cancelled \/ Calls < MaxCalls
  /\ items' = cancel(i, v).items
  /\ future' = cancel(i, v).future
  /\ reached' = IF reached[i].by = "none"
                  THEN [reached EXCEPT ![i] = [by |-> "cancel", st |-> "resolved", val |-> v]]
                  ELSE reached
  /\ dataArray' = SelectSeq(dataArray, LAMBDA k : k # i)
  /\ UNCHANGED <<props, batchTimeout, batches, pendingFlushes, waits>>

\* a caller invokes the cancel handle of item i with value v
Cancel(i, v) ==
  /\ i \in 1..Len(items)
  /\ items[i].cancelled \/ Calls < MaxCalls
  /\ items' = cancel(i, v).items
  /\ future' = cancel(i, v).future
  /\ reached' = IF reached[i].by = "none"
                  THEN [reached EXCEPT ![i] = [by |-> "cancel", st |-> "resolved", val |-> v]]
                  ELSE reached
  /\ UNCHANGED <<props, dataArray, batchTimeout, batches, pendingFlushes, waits>>

\* the max-wait timer armed at line 196 fires and runs _flush
BatchTimeout ==
  /\ batchTimeout.armed
  /\ batchTimeout.left = 0
  /\ ~MicrotaskQueued
  /\ LET f == _flush(items, dataArray, "timer")
     IN  /\ dataArray' = f.dataArray
         /\ batches' = f.batches
         /\ pendingFlushes' = f.pendingFlushes
  /\ batchTimeout' = NoTimer
  /\ UNCHANGED <<props, items, future, reached, waits>>

\* a slip: units run one after the other, a dwell timer held back while the
\* handler of an earlier unit is in flight
DwellTimeoutSerial(u) ==
  /\ u \in 1..Len(batches)
  /\ batches[u].phase = "dwell"
  /\ batches[u].timeout.armed
  /\ batches[u].timeout.left = 0
  /\ ~MicrotaskQueued
  /\ \A x \in 1..(u - 1) : batches[x].phase # "flushing"
  /\ batches' = [batches EXCEPT ![u].timeout = NoTimer, ![u].phase = "ready"]
  /\ UNCHANGED <<props, items, future, reached, dataArray, batchTimeout,
                 pendingFlushes, waits>>

\* the dwell timer of unit u (line 108) fires and resolves the dwell promise
DwellTimeout(u) ==
  /\ u \in 1..Len(batches)
  /\ batches[u].phase = "dwell"
  /\ batches[u].timeout.armed
  /\ batches[u].timeout.left = 0
  /\ ~MicrotaskQueued
  /\ batches' = [batches EXCEPT ![u].timeout = NoTimer, ![u].phase = "ready"]
  /\ UNCHANGED <<props, items, future, reached, dataArray, batchTimeout,
                 pendingFlushes, waits>>

\* the reaction .then(flushPromise) of line 109 runs flush
FlushStart(u) ==
  /\ u \in 1..Len(batches)
  /\ batches[u].phase = "ready"
  /\ batches' = [batches EXCEPT ![u] = flush(items, @)]
  /\ UNCHANGED <<props, items, future, reached, dataArray, batchTimeout,
                 pendingFlushes, waits>>

\* the handler's promise settles with res and flush resumes after its await
\* (lines 72-87): it settles the items and the unit's promise
HandlerDone(u, res) ==
  /\ u \in 1..Len(batches)
  /\ batches[u].phase = "flushing"
  /\ res \in HandlerResults(batches[u].batch)
  /\ future' = [i \in 1..Len(future) |->
                 IF FlushSettles(items, batches[u], i)
                   THEN PromiseSettle(future[i], FlushOutcome(res, i).st, FlushOutcome(res, i).val)
                   ELSE future[i]]
  /\ reached' = [i \in 1..Len(reached) |->
                  IF i \in Range(batches[u].batch) /\ reached[i].by = "none"
                    THEN [by |-> "flush", st |-> FlushOutcome(res, i).st,
                          val |-> FlushOutcome(res, i).val]
                    ELSE reached[i]]
  /\ batches' = [batches EXCEPT ![u].phase = "settled",
                                ![u].result = IF res.kind = "error" THEN "err" ELSE "ok"]
  /\ UNCHANGED <<props, items, dataArray, batchTimeout, pendingFlushes, waits>>

\* the handler invoked for unit u settles in one of the ways it can
HandlerSettles(u) ==
  /\ u \in 1..Len(batches)
  /\ \E res \in HandlerResults(batches[u].batch) : HandlerDone(u, res)

\* a slip at line 162: the unit is not taken out of the registry (as with
\* pendingFlushes.filter(..), whose result is dropped)
DeregisterKeeps(u) ==
  /\ u \in 1..Len(batches)
  /\ batches[u].phase = "settled"
  /\ batches' = [batches EXCEPT ![u].phase = "done"]
  /\ UNCHANGED <<props, items, future, reached, dataArray, batchTimeout,
                 pendingFlushes, waits>>

\* a slip at lines 158-163: the clean-up attached with .then, which a failed
\* unit skips
DeregisterOnSuccess(u) ==
  /\ u \in 1..Len(batches)
  /\ batches[u].phase = "settled"
  /\ batches' = [batches EXCEPT ![u].phase = "done"]
  /\ pendingFlushes' = IF batches[u].result = "ok"
                         THEN pendingFlushes \ {u} ELSE pendingFlushes
  /\ UNCHANGED <<props, items, future, reached, dataArray, batchTimeout, waits>>

\* lines 158-163: the unit's promise has settled; .catch().finally() removes
\* the unit from the registry
Deregister(u) ==
  /\ u \in 1..Len(batches)
  /\ batches[u].phase = "settled"
  /\ batches' = [batches EXCEPT ![u].phase = "done"]
  /\ pendingFlushes' = pendingFlushes \ {u}
  /\ UNCHANGED <<props, items, future, reached, dataArray, batchTimeout, waits>>

\* waitForAll(), lines 210-222, up to its await
WaitForAll ==
  /\ Calls < MaxCalls
  /\ LET f == _flush(items, dataArray, "waitForAll")
     IN  /\ dataArray' = f.dataArray
         /\ pendingFlushes' = f.pendingFlushes
         /\ batches' = [u \in 1..Len(f.batches) |->
                          IF u \in f.pendingFlushes
                            THEN settle(f.batches[u]) ELSE f.batches[u]]
         /\ waits' = Append(waits, [tracked |-> f.pendingFlushes, st |-> "pending",
                                    created |-> Len(f.batches)])
  /\ batchTimeout' = clearTimeout(batchTimeout)
  /\ UNCHANGED <<props, items, future, reached>>

\* the await of line 216 ends: waitForAll's promise settles
WaitSettle(w) ==
  /\ w \in 1..Len(waits)
  /\ waits[w].st = "pending"
  /\ PromiseAll(waits[w].tracked) # "pending"
  /\ waits' = [waits EXCEPT ![w].st = PromiseAll(waits[w].tracked)]
  /\ UNCHANGED <<props, items, future, reached, dataArray, batchTimeout,
                 batches, pendingFlushes>>

\* an item's age is read until flush has read it (line 70)
Unflushed ==
  Range(dataArray) \cup
    UNION {Range(batches[u].items) : u \in {x \in 1..Len(batches) :
                                              batches[x].phase \in {"dwell", "ready"}}}

elapse(t) == IF t.armed THEN [t EXCEPT !.left = Max(@ - 1, 0)] ELSE t

\* one unit of time passes
Tick ==
  /\ items' = [i \in 1..Len(items) |->
                 IF i \in Unflushed
                   THEN [items[i] EXCEPT !.age = Min(@ + 1, Horizon)]
                   ELSE items[i]]
  /\ batchTimeout' = elapse(batchTimeout)
  /\ batches' = [u \in 1..Len(batches) |->
                   [batches[u] EXCEPT !.timeout = elapse(@)]]
  /\ UNCHANGED <<props, future, reached, dataArray, pendingFlushes, waits>>

Next ==
  \/ \E d \in Data : Add(d)
  \/ \E i \in 1..MaxCalls, v \in CancelValues : Cancel(i, v)
  \/ BatchTimeout
  \/ \E u \in 1..Len(batches) : DwellTimeout(u)
  \/ \E u \in 1..Len(batches) : FlushStart(u)
  \/ \E u \in 1..Len(batches) : HandlerSettles(u)
  \/ \E u \in 1..Len(batches) : Deregister(u)
  \/ WaitForAll
  \/ \E w \in 1..Len(waits) : WaitSettle(w)
  \/ Tick

Spec == Init /\ [][Next]_vars

\* what happens without a caller: time passes, an armed timer fires, a queued
\* promise reaction runs, a handler invocation settles
Internal ==
  \/ Tick
  \/ BatchTimeout
  \/ \E u \in 1..Len(batches) :
       DwellTimeout(u) \/ FlushStart(u) \/ HandlerSettles(u) \/ Deregister(u)
  \/ \E w \in 1..Len(waits) : WaitSettle(w)

\* The event loop does not stop while a timer is armed, a promise reaction is
\* queued or a handler can settle.
Fairness == WF_vars(Internal)

FairSpec == Spec /\ Fairness

\* ============================================================== the claims

Settled(i) == i <= Len(future) /\ future[i].st # "pending"

\* C1: every item passed to add eventually has its future settled, whatever
\* the interleaving of add, cancel, timer expiries and waitForAll, given that
\* armed timers fire and handler invocations settle; and an item in the open
\* group always has the max-wait timer armed as its pending trigger.
\* (Always eventually all items added so far are settled: an item added at
\* some moment is among those settled at the next such moment.)
C1_EveryItemSettles ==
  /\ []<>(\A i \in 1..Len(items) : Settled(i))
  /\ [](Len(dataArray) > 0 => batchTimeout.armed)

\* an item that waited in the open group for the max-wait timer and was then
\* settled by the flush of its unit
C1_Witness ==
  \E u \in 1..Len(batches) :
    /\ batches[u].closedBy = "timer"
    /\ \E i \in Range(batches[u].batch) : reached[i].by = "flush" /\ Settled(i)

\* ------------------------------------------------------------------- C2
\* C2: each item's future settles at most once and the first write wins:
\* the future always holds the first of the cancel call and the flush outcome
\* to reach the item, and once settled it never changes.  An item cancelled
\* with v while its handler is in flight holds v, also after the handler
\* completes.
C2_FirstWriteWins ==
  /\ [](\A i \in 1..Len(items) :
          future[i] = [st |-> reached[i].st, val |-> reached[i].val])
  /\ [][\A i \in 1..Len(items) :
          future[i].st # "pending" => future'[i] = future[i]]_vars

\* an item cancelled with "c" while in the handler's batch, whose handler has
\* completed since
C2_Witness ==
  \E u \in 1..Len(batches) : \E i \in Range(batches[u].batch) :
    /\ batches[u].phase = "done"
    /\ items[i].cancelled
    /\ reached[i].by = "cancel"
    /\ future[i] = [st |-> "resolved", val |-> "c"]

\* ------------------------------------------------------------------- C3
\* this step is an add call / invokes the handler for unit u / creates a unit
AddCall == Len(items') = Len(items) + 1

InvokedNow(u) ==
  /\ u \in 1..Len(batches')
  /\ batches'[u].phase = "flushing"
  /\ u > Len(batches) \/ batches[u].phase # "flushing"

Closes == Len(batches') = Len(batches) + 1

\* the items of seq that are not cancelled, in order
Live(its, seq) == SelectSeq(seq, LAMBDA k : ~its[k].cancelled)

\* C3: the add call that brings the open group to maxSize items clears the
\* max-wait timer, closes the group into a registered flush unit within the
\* call, and the handler runs for it without the max-wait timer: within the
\* call when no dwell is left, else on the unit's own dwell timer.
C3_SizeTriggersImmediateFlush ==
  [][(AddCall /\ Len(dataArray) + 1 = props.maxSize) =>
       /\ dataArray' = <<>>
       /\ ~batchTimeout'.armed
       /\ Closes
       /\ Len(batches') \in pendingFlushes'
       /\ LET b == batches'[Len(batches')]
              first == items'[b.items[1]]
          IN  /\ b.items = Append(dataArray, Len(items'))
              /\ first.age >= props.minTimeInMs =>
                   InvokedNow(Len(batches')) /\ b.batch = Live(items', b.items)
              /\ first.age < props.minTimeInMs =>
                   /\ b.phase = "dwell" /\ b.timeout.armed
                   /\ b.timeout.left = props.minTimeInMs - first.age]_vars

\* a group of two closed by the second add while its max-wait timer of 2 was
\* pending, its handler invoked in that call
C3_Witness ==
  \E u \in 1..Len(batches) :
    /\ props.maxSize = 2 /\ props.maxTimeInMs = 2
    /\ batches[u].closedBy = "size"
    /\ Len(batches[u].items) = 2
    /\ batches[u].phase = "flushing"
    /\ items[batches[u].items[1]].age < 2

\* ------------------------------------------------------------------- C4
\* the units hold the items in the order of their adds, each unit the items
\* added since the unit before it was closed, the open group the rest
InOrder ==
  LET all == [u \in 1..Len(batches) + 1 |->
                IF u <= Len(batches) THEN batches[u].items ELSE dataArray]
      start(u) == IF u = 1 THEN 1 ELSE all[u - 1][Len(all[u - 1])] + 1
  IN  /\ \A u \in 1..Len(batches) : Len(all[u]) > 0
      /\ \A u \in 1..Len(all) : \A k \in 1..Len(all[u]) : all[u][k] = start(u) + k - 1
      /\ start(Len(all)) + Len(dataArray) = Len(items) + 1

\* a group of fewer than maxSize items closed without a waitForAll call
Small(b) == Len(b.items) < props.maxSize /\ b.closedBy # "waitForAll"

\* this step runs flush for unit u: it filters the items and either invokes
\* the handler or, with nothing left, returns
FlushedNow(u) ==
  /\ u \in 1..Len(batches')
  /\ batches'[u].phase \in {"flushing", "settled"}
  /\ u > Len(batches) \/ batches[u].phase \in {"dwell", "ready"}

C5_MinDwellRespected ==
  [][(props.minTimeInMs > 0 /\ Len(waits') = 0) =>
       /\ \A u \in 1..Len(batches') :
            InvokedNow(u) => items'[batches'[u].items[1]].age >= props.minTimeInMs
       /\ Closes =>
            LET b == batches'[Len(batches')]
                elapsed == items'[b.items[1]].age
            IN  IF elapsed < props.minTimeInMs
                  THEN /\ b.phase = "dwell" /\ b.timeout.armed
                       /\ b.timeout.left = props.minTimeInMs - elapsed
                  ELSE b.phase # "dwell" /\ ~b.timeout.armed]_vars

\* a group closed by reaching maxSize that waited out its dwell of 2
C5_Witness ==
  \E u \in 1..Len(batches) :
    /\ props.minTimeInMs = 2 /\ Len(waits) = 0
    /\ batches[u].closedBy = "size"
    /\ batches[u].phase = "flushing"
    /\ items[batches[u].items[1]].age >= 2

\* ------------------------------------------------------------------- C6
\* C6: cancelling an item with v before its group is handed to the handler
\* (in the open group, or in a closed unit still before its flush) resolves
\* its future at once with v, and no item that is cancelled when the handler
\* is invoked is in the batch the handler receives.
C6_CancelledBeforeFlushExcluded ==
  [][/\ \A i \in 1..Len(items) :
          (~items[i].cancelled /\ items'[i].cancelled /\ i \in Unflushed) =>
             /\ future[i].st = "pending"
             /\ reached'[i].by = "cancel"
             /\ future'[i] = [st |-> "resolved", val |-> reached'[i].val]
     /\ \A u \in 1..Len(batches') :
          InvokedNow(u) =>
             /\ \A i \in Range(batches'[u].batch) : ~items'[i].cancelled
             /\ \A i \in Range(batches'[u].items) :
                  items'[i].cancelled => i \notin Range(batches'[u].batch)]_vars

\* a handler invoked with a batch that leaves out an item cancelled with "c"
\* beforehand
C6_Witness ==
  \E u \in 1..Len(batches) : \E i \in Range(batches[u].items) :
    /\ batches[u].phase = "flushing"
    /\ i \notin Range(batches[u].batch)
    /\ future[i] = [st |-> "resolved", val |-> "c"]

\* ------------------------------------------------------------------- C7
\* the promise of a tracked unit has settled
UnitSettled(u) == batches[u].phase \in {"settled", "done"}

\* C7: waitForAll does not throw because a flush failed: when the handler of
\* a tracked unit rejects, waitForAll still waits for every tracked unit to
\* settle and then resolves.
C7_WaitForAllNeverRejects ==
  \A w \in 1..Len(waits) :
    /\ waits[w].st # "rejected"
    /\ waits[w].st # "pending" => \A u \in waits[w].tracked : UnitSettled(u)

\* ------------------------------------------------------------------- C8
WaitCall == Len(waits') = Len(waits) + 1

\* C8: waitForAll resolves only after every unit it tracks has settled; it
\* tracks the units in the registry at the call together with the unit the
\* call creates from the open group, and that set never grows: units created
\* afterwards are not waited on.
C8_ResolvesAfterTracked ==
  /\ [](\A w \in 1..Len(waits) :
          waits[w].st = "resolved" => \A u \in waits[w].tracked : UnitSettled(u))
  /\ [][/\ WaitCall =>
             /\ waits'[Len(waits')].tracked = pendingFlushes'
             /\ pendingFlushes' =
                  pendingFlushes \cup (IF Len(dataArray) > 0 THEN {Len(batches')} ELSE {})
             /\ Len(dataArray) > 0 =>
                  Closes /\ batches'[Len(batches')].items = dataArray
        /\ \A w \in 1..Len(waits) : waits'[w].tracked = waits[w].tracked]_vars

\* a waitForAll that has resolved, its tracked unit settled, while a unit
\* created after the call is still with its handler
C8_Witness ==
  \E w \in 1..Len(waits) : \E u \in 1..Len(batches) :
    /\ waits[w].st = "resolved"
    /\ waits[w].tracked # {}
    /\ u \notin waits[w].tracked
    /\ batches[u].phase = "flushing"

\* ------------------------------------------------------------------- C9
Resolves(w) == waits[w].st # "resolved" /\ waits'[w].st = "resolved"

\* C9 as stated: amountOfPendingFlushes() is 0 right after waitForAll
\* resolves, whatever happened before and while it was pending.
C9_ZeroAfterWaitForAll ==
  [][\A w \in 1..Len(waits) : Resolves(w) => Cardinality(pendingFlushes') = 0]_vars

\* C9 as amended: right after waitForAll resolves the registry holds only
\* units created after that call was made, so amountOfPendingFlushes() is 0
\* when no unit was created since.
C9_OnlyLaterUnitsAfterWaitForAll ==
  [][\A w \in 1..Len(waits) :
       Resolves(w) =>
         /\ \A u \in pendingFlushes' : u > waits[w].created
         /\ Len(batches') = waits[w].created => Cardinality(pendingFlushes') = 0]_vars

\* a waitForAll that tracked a unit has resolved and the registry is empty
C9_Witness ==
  \E w \in 1..Len(waits) :
    /\ waits[w].st = "resolved"
    /\ waits[w].tracked # {}
    /\ Len(batches) = waits[w].created
    /\ pendingFlushes = {}

\* ------------------------------------------------------------------ C10
\* C10: a waitForAll call clears the max-wait timer, closes the open group
\* into a unit whatever its size and age, and fast-forwards the dwell timer
\* of every unit in the registry, the new one included: after the call the
\* open group is empty and no tracked unit waits on a dwell timer, then or
\* later.
C10_WaitForAllForcesFlush ==
  /\ [][WaitCall =>
          /\ dataArray' = <<>>
          /\ ~batchTimeout'.armed
          /\ Len(dataArray) > 0 =>
               /\ Closes
               /\ batches'[Len(batches')].items = dataArray
               /\ Len(batches') \in pendingFlushes'
          /\ \A u \in pendingFlushes' :
               /\ batches'[u].phase \in {"ready", "flushing", "settled"}
               /\ ~batches'[u].timeout.armed
               /\ u <= Len(batches) /\ batches[u].phase = "dwell"
                    => batches'[u].phase = "ready"]_vars
  /\ [](\A w \in 1..Len(waits) : \A u \in waits[w].tracked :
          batches[u].phase # "dwell" /\ ~batches[u].timeout.armed)

\* a single item of a group of two, closed by waitForAll before its max-wait
\* and handed to the handler before its dwell of 2 has elapsed
C10_Witness ==
  \E u \in 1..Len(batches) :
    /\ props.maxSize = 2 /\ props.minTimeInMs = 2
    /\ batches[u].closedBy = "waitForAll"
    /\ Len(batches[u].items) = 1
    /\ batches[u].phase = "flushing"
    /\ items[batches[u].items[1]].age = 0

\* ------------------------------------------------------------------ C11
\* this step is the handler of unit u rejecting and flush passing that on
FailsNow(u) ==
  /\ u \in 1..Len(batches)
  /\ batches[u].phase = "flushing"
  /\ batches'[u].phase = "settled"
  /\ batches'[u].result = "err"

\* C11: when the handler's future rejects with E, every item of the batch
\* that is not cancelled at that moment rejects with E, an item of the batch
\* cancelled by then keeps its cancel value, and the unit's own future
\* rejects; the handler is not invoked again for the unit or for any of its
\* items.
C11_HandlerErrorRejectsItems ==
  /\ [][\A u \in 1..Len(batches) :
          /\ FailsNow(u) =>
               \A i \in Range(batches[u].batch) :
                 IF items[i].cancelled
                   THEN /\ future'[i] = future[i]
                        /\ future[i] = [st |-> "resolved", val |-> reached[i].val]
                        /\ reached[i].by = "cancel"
                   ELSE /\ future[i].st = "pending"
                        /\ future'[i] = [st |-> "rejected", val |-> "E"]
          /\ batches[u].result = "err" =>
               /\ batches'[u].result = "err"
               /\ batches'[u].phase \in {"settled", "done"}
               /\ batches'[u].batch = batches[u].batch]_vars
  /\ [](\A u \in 1..Len(batches) :
          batches[u].result = "err" =>
            \A v \in 1..Len(batches) :
              v # u => Range(batches[v].items) \cap Range(batches[u].items) = {})

\* a batch of two whose handler failed: one item cancelled with "c" while
\* the handler was in flight, the other rejected with E
C11_Witness ==
  \E u \in 1..Len(batches) : \E i, j \in Range(batches[u].batch) :
    /\ batches[u].result = "err"
    /\ future[i] = [st |-> "resolved", val |-> "c"]
    /\ future[j] = [st |-> "rejected", val |-> "E"]

\* ------------------------------------------------------------------ C12
\* C12: when the handler succeeds, each uncancelled item of the batch
\* resolves: with the data of its {id, data} entry when the handler returned
\* a sequence holding its id, with null when the sequence lacks its id, and
\* with null when the handler returned nothing.
C12_ResultsMappedById ==
  [][\A u \in 1..Len(batches) :
       \A res \in HandlerResults(batches[u].batch) :
         (res.kind # "error" /\ HandlerDone(u, res)) =>
            /\ batches'[u].result = "ok"
            /\ \A i \in Range(batches[u].batch) :
                 ~items[i].cancelled =>
                    /\ future'[i].st = "resolved"
                    /\ (res.kind = "array" /\ i \in DOMAIN res.map)
                         => future'[i].val = res.map[i]
                    /\ (res.kind = "array" /\ i \notin DOMAIN res.map)
                         => future'[i].val = "null"
                    /\ res.kind = "void" => future'[i].val = "null"]_vars

\* a batch of two whose handler returned an entry for one item only: that
\* item holds the entry's data, the other null
C12_Witness ==
  \E u \in 1..Len(batches) : \E i, j \in Range(batches[u].batch) :
    /\ batches[u].result = "ok"
    /\ reached[i].by = "flush" /\ reached[j].by = "flush"
    /\ future[i] = [st |-> "resolved", val |-> "r"]
    /\ future[j] = [st |-> "resolved", val |-> "null"]

\* ------------------------------------------------------------------ C13
\* s holds item indices in the order of their adds
Ascending(s) == \A k \in 1..Len(s) - 1 : s[k] < s[k + 1]

\* C13: a batch holds its items in the order they were added, and groups
\* close in that order: every item of an earlier-closed group was added
\* before every item of a later-closed one, and before those of the open
\* group.  With maxSize 2, three adds in succession give the batches [1,2]
\* and then [3].
C13_EnqueueOrder ==
  /\ [](/\ Ascending(dataArray)
        /\ \A u \in 1..Len(batches) :
             /\ Ascending(batches[u].items)
             /\ Ascending(batches[u].batch)
             /\ Range(batches[u].batch) \subseteq Range(batches[u].items)
             /\ \A i \in Range(batches[u].items) :
                  /\ \A j \in Range(dataArray) : i < j
                  /\ \A v \in 1..Len(batches) :
                       u < v => \A j \in Range(batches[v].items) : i < j)
  /\ [][\A u \in 1..Len(batches') :
          InvokedNow(u) => batches'[u].batch = Live(items', batches'[u].items)]_vars

\* maxSize 2 and three adds: the batch [1,2] with the handler, then [3]
C13_Witness ==
  /\ props.maxSize = 2
  /\ Len(batches) = 2
  /\ batches[1].batch = <<1, 2>> /\ batches[1].phase = "flushing"
  /\ batches[2].batch = <<3>> /\ batches[2].phase = "flushing"

\* ------------------------------------------------------------------ C14
\* C14: an item's cancel handle acts once.  The first call resolves the
\* item with its value if the item is still pending; a call on an item that
\* is already cancelled, with the same or another value, changes nothing at
\* all; and a call made after the flush has settled the item leaves that
\* outcome as it is.
C14_CancelIdempotent ==
  /\ [][\A i \in 1..Len(items) : \A v \in CancelValues :
          Cancel(i, v) =>
            /\ items[i].cancelled => UNCHANGED vars
            /\ future[i].st # "pending" => future'[i] = future[i]
            /\ (~items[i].cancelled /\ future[i].st = "pending") =>
                 future'[i] = [st |-> "resolved", val |-> v]
            /\ \A j \in 1..Len(items) : j # i => future'[j] = future[j]]_vars
  /\ [](\A i \in 1..Len(items) :
          /\ reached[i].by = "cancel" =>
               future[i] = [st |-> "resolved", val |-> reached[i].val]
          /\ reached[i].by = "flush" =>
               future[i] = [st |-> reached[i].st, val |-> reached[i].val])

\* an item resolved with "r" by its flush and cancelled afterwards, still
\* holding "r"
C14_Witness ==
  \E i \in 1..Len(items) :
    /\ items[i].cancelled
    /\ reached[i].by = "flush"
    /\ future[i] = [st |-> "resolved", val |-> "r"]

\* ------------------------------------------------------------------ C15
\* C15: the handler is never invoked with an empty batch.  waitForAll on an
\* empty open group creates and registers no unit; no unit holds an empty
\* group; and a unit whose items are all cancelled when its flush runs skips
\* the handler and its future resolves with an empty result.
C15_NoEmptyBatch ==
  /\ [](\A u \in 1..Len(batches) :
          /\ Len(batches[u].items) > 0
          /\ batches[u].phase = "flushing" => Len(batches[u].batch) > 0
          /\ (batches[u].phase \in {"settled", "done"} /\ Len(batches[u].batch) = 0) =>
               batches[u].result = "ok")
  /\ [][/\ (WaitCall /\ Len(dataArray) = 0) =>
             /\ Len(batches') = Len(batches)
             /\ pendingFlushes' = pendingFlushes
        /\ \A u \in 1..Len(batches') :
             /\ InvokedNow(u) => Len(batches'[u].batch) > 0
             /\ (FlushedNow(u) /\ \A i \in Range(batches'[u].items) : items'[i].cancelled) =>
                  /\ batches'[u].phase = "settled"
                  /\ batches'[u].result = "ok"
                  /\ batches'[u].batch = <<>>]_vars

\* after a waitForAll on the idle batcher, which created no unit, a unit
\* whose only item was cancelled during its dwell has settled without a
\* handler call
C15_Witness ==
  /\ Len(waits) = 1 /\ waits[1].tracked = {} /\ waits[1].created = 0
  /\ \E u \in 1..Len(batches) :
       /\ batches[u].phase = "done"
       /\ batches[u].result = "ok"
       /\ batches[u].batch = <<>>
       /\ \A i \in Range(batches[u].items) : items[i].cancelled

\* ------------------------------------------------------------------ C16
\* the units created whose future has not settled
Unsettled == {u \in 1..Len(batches) : ~UnitSettled(u)}

\* C16 as stated: amountOfPendingFlushes() equals the number of units created
\* and not yet settled.
C16_CountsUnsettledUnits == Cardinality(pendingFlushes) = Cardinality(Unsettled)

\* C16 as amended: a unit enters the registry in the step that closes its
\* group and leaves it in the clean-up reaction that its settlement queues,
\* after a success as after a failure, and in no other step.  The registry
\* holds every unsettled unit and, besides, the settled units whose clean-up
\* has not run yet, so amountOfPendingFlushes() equals the number of
\* unsettled units, and is 0 when all have settled, whenever no promise
\* reaction is queued.
C16_RegistryUntilCleanup ==
  /\ [](/\ pendingFlushes = {u \in 1..Len(batches) : batches[u].phase # "done"}
        /\ Unsettled \subseteq pendingFlushes
        /\ ~MicrotaskQueued => pendingFlushes = Unsettled)
  /\ [][/\ Closes => pendingFlushes' = pendingFlushes \cup {Len(batches')}
        /\ ~Closes => pendingFlushes' \subseteq pendingFlushes
        /\ \A u \in pendingFlushes :
             u \notin pendingFlushes' =>
               /\ batches[u].phase = "settled" /\ batches'[u].phase = "done"
               /\ batches[u].result \in {"ok", "err"}
               /\ pendingFlushes' = pendingFlushes \ {u}]_vars

\* a unit whose handler failed has left the registry, which is empty
C16_Witness ==
  \E u \in 1..Len(batches) :
    /\ batches[u].result = "err"
    /\ batches[u].phase = "done"
    /\ Len(batches[u].batch) > 0
    /\ pendingFlushes = {}

\* ------------------------------------------------------------------ C17
\* C17: with maxSize >= 1 the open group holds fewer than maxSize items
\* whenever an add call has returned, the item that brings it to maxSize
\* going into the group that closes; so no unit and no batch handed to the
\* handler holds more than maxSize items.
C17_GroupBelowMaxSize ==
  /\ [](/\ Len(dataArray) < props.maxSize
        /\ \A u \in 1..Len(batches) :
             /\ Len(batches[u].items) <= props.maxSize
             /\ Len(batches[u].batch) <= props.maxSize)
  /\ [][AddCall =>
          /\ Len(dataArray') < props.maxSize
          /\ IF Len(dataArray) + 1 = props.maxSize
               THEN Closes /\ batches'[Len(batches')].items = Append(dataArray, Len(items'))
               ELSE ~Closes /\ dataArray' = Append(dataArray, Len(items'))]_vars

\* a batch of exactly maxSize = 2 items with the handler while the next item
\* waits alone in the open group
C17_Witness ==
  \E u \in 1..Len(batches) :
    /\ props.maxSize = 2
    /\ Len(batches[u].batch) = 2
    /\ batches[u].phase = "flushing"
    /\ Len(dataArray) = 1

\* ------------------------------------------------------------------ C18
\* a step of unit u alone: its dwell timer fires, its flush starts, its
\* handler settles or its clean-up runs
UnitStep(u) == DwellTimeout(u) \/ FlushStart(u) \/ HandlerSettles(u) \/ Deregister(u)

\* C18: flush units are independent.  A unit's dwell timer is set from the
\* arrival of its own group's first item and counts down by itself; a step
\* of one unit leaves every other unit as it is; and whatever the other
\* units are doing, a unit whose dwell has run out can proceed, a unit whose
\* flush is queued can start it and a unit's handler can settle, so a unit
\* closed later may have its handler invoked and its items settled before
\* those of an earlier unit.
C18_UnitsIndependent ==
  /\ [](\A u \in 1..Len(batches) :
          /\ batches[u].phase = "flushing" => ENABLED HandlerSettles(u)
          /\ batches[u].phase = "ready" => ENABLED FlushStart(u)
          /\ (batches[u].phase = "dwell" /\ batches[u].timeout.left = 0
                /\ ~MicrotaskQueued) => ENABLED DwellTimeout(u))
  /\ [][/\ \A u \in 1..Len(batches) :
             UnitStep(u) => \A v \in 1..Len(batches) : v # u => batches'[v] = batches[v]
        /\ (Closes /\ ~WaitCall) =>
             /\ \A v \in 1..Len(batches) : batches'[v] = batches[v]
             /\ LET b == batches'[Len(batches')]
                    wait == props.minTimeInMs - items'[b.items[1]].age
                IN  IF wait > 0
                      THEN b.phase = "dwell" /\ b.timeout = [armed |-> TRUE, left |-> wait]
                      ELSE b.phase # "dwell" /\ ~b.timeout.armed
        /\ \A v \in 1..Len(batches) :
             (batches[v].phase = "dwell" /\ batches'[v].phase = "dwell") =>
                /\ batches'[v].timeout.armed
                /\ batches'[v].timeout.left \in
                     {batches[v].timeout.left, batches[v].timeout.left - 1}]_vars

\* a later unit whose handler has settled its item while the handler of the
\* unit closed before it is still in flight
C18_Witness ==
  \E u, v \in 1..Len(batches) :
    /\ u < v
    /\ batches[u].phase = "flushing"
    /\ batches[v].phase \in {"settled", "done"}
    /\ \E i \in Range(batches[v].batch) : reached[i].by = "flush" /\ Settled(i)
    /\ \E i \in Range(batches[u].batch) : ~Settled(i)

\* ------------------------------------------------------------------ C19
\* the number of places item i is in
Places(i) ==
  Cardinality({k \in 1..Len(dataArray) : dataArray[k] = i})
    + Cardinality(UNION {{<<u, k>> : k \in {x \in 1..Len(batches[u].items) :
                                                 batches[u].items[x] = i}} :
                           u \in 1..Len(batches)})

\* C19: every item is in exactly one group, the open group or one flush
\* unit.  Closing a group moves all of its items into the new unit and
\* leaves the open group empty in one step, the items of existing units
\* never change, and the handler is invoked at most once per unit, so that
\* no item is lost, is in two units or is passed to two handler invocations.
C19_OneGroupPerItem ==
  /\ [](/\ \A i \in 1..Len(items) : Places(i) = 1
        /\ \A u, v \in 1..Len(batches) :
             u # v => Range(batches[u].batch) \cap Range(batches[v].batch) = {})
  /\ [][/\ Closes =>
             /\ dataArray' = <<>>
             /\ batches'[Len(batches')].items \in
                  {dataArray, Append(dataArray, Len(items'))}
             /\ Len(batches'[Len(batches')].items) > 0
        /\ ~Closes => (dataArray' = dataArray \/ (AddCall /\ dataArray' = Append(dataArray, Len(items'))))
        /\ \A u \in 1..Len(batches) :
             /\ batches'[u].items = batches[u].items
             /\ batches[u].phase \in {"flushing", "settled", "done"} =>
                  /\ batches'[u].batch = batches[u].batch
                  /\ ~InvokedNow(u)]_vars

\* a closed group of two with the handler, a third item in the open group
\* and none of them settled
C19_Witness ==
  /\ Len(batches) = 1 /\ Len(items) = 3
  /\ batches[1].items = <<1, 2>> /\ batches[1].batch = <<1, 2>>
  /\ dataArray = <<3>>
  /\ \A i \in 1..3 : ~Settled(i)

\* ------------------------------------------------------------------ C20
\* this step is the first call of the cancel handle of item i
CancelsNow(i) == i \in 1..Len(items) /\ ~items[i].cancelled /\ items'[i].cancelled

\* C20: a cancel call changes the item's cancelled flag and its future and
\* nothing else: the open group, the units, the registry, the max-wait timer
\* and the dwell timers stay as they are.  So a cancelled item keeps its
\* place in the open group and counts toward maxSize, and as first item it
\* still sets the max-wait deadline and the start of the dwell; a batch
\* closed by size may hold fewer than maxSize items.
C20_CancelFrame ==
  [][/\ \A i \in 1..Len(items) :
          CancelsNow(i) =>
            /\ UNCHANGED <<props, dataArray, batchTimeout, batches, pendingFlushes, waits>>
            /\ items' = [items EXCEPT ![i].cancelled = TRUE]
            /\ \A j \in 1..Len(items) : j # i => future'[j] = future[j]
     /\ AddCall => (Closes <=> Len(dataArray) + 1 >= props.maxSize)
     /\ (AddCall /\ ~Closes /\ Len(dataArray) > 0) => batchTimeout' = batchTimeout
     /\ (Closes /\ ~AddCall /\ ~WaitCall) =>
          items[dataArray[1]].age >= props.maxTimeInMs
     /\ (Closes /\ ~WaitCall) =>
          LET b == batches'[Len(batches')]
          IN  (b.phase = "dwell") = (items'[b.items[1]].age < props.minTimeInMs)]_vars

\* a group of two closed by size whose first item had been cancelled: the
\* handler has a batch of one
C20_Witness ==
  \E u \in 1..Len(batches) :
    /\ props.maxSize = 2
    /\ batches[u].closedBy = "size"
    /\ Len(batches[u].items) = 2
    /\ items[batches[u].items[1]].cancelled
    /\ batches[u].phase = "flushing"
    /\ Len(batches[u].batch) = 1

\* ------------------------------------------------------------------ C21
\* this step is an add that arms the max-wait timer (lines 194-197)
ArmsNow == AddCall /\ Len(dataArray') = 1

\* C21: whatever adds, cancels, timer expiries, closes by size, handler
\* completions and waitForAll calls have happened, the max-wait timer is
\* armed exactly when the open group is non-empty, and never two at a time:
\* the handle is given a new timer only when the timer it held is not armed
\* any more.  So a max-wait expiry finds a non-empty open group and closes it
\* no earlier than maxTimeInMs after the arrival of that group's first item.
C21_TimerArmedIffGroupOpen ==
  /\ [](/\ batchTimeout.armed <=> Len(dataArray) > 0
        /\ batchTimeout.armed =>
             batchTimeout.left >= props.maxTimeInMs - items[dataArray[1]].age)
  /\ [][/\ ArmsNow =>
             /\ ~batchTimeout.armed
             /\ Len(dataArray) = 0
             /\ batchTimeout' = [armed |-> TRUE, left |-> props.maxTimeInMs]
        /\ (AddCall /\ ~ArmsNow /\ Len(dataArray') > 0) => batchTimeout' = batchTimeout
        /\ BatchTimeout =>
             /\ Len(dataArray) > 0
             /\ Closes
             /\ batches'[Len(batches')].items = dataArray
             /\ items[dataArray[1]].age >= props.maxTimeInMs
             /\ ~batchTimeout'.armed]_vars

\* a group closed by the max-wait timer of 2 and, after it, a new open group
\* with its own timer running
C21_Witness ==
  \E u \in 1..Len(batches) :
    /\ props.maxTimeInMs = 2
    /\ batches[u].closedBy = "timer"
    /\ Len(dataArray) = 1
    /\ dataArray[1] > batches[u].items[1]
    /\ batchTimeout.armed
    /\ batchTimeout.left > 0

====
